---------------------------- MODULE Spec2Model ----------------------------
(***************************************************************************)
(* State-machine model of the mcp-probe client runtime.                    *)
(*                                                                         *)
(*   Spec     HttpStreamTransport  (crates/mcp-core/src/transport/         *)
(*            http_stream.rs): the pending-request table, the oneshot      *)
(*            channels of the waiters, the background connection task and  *)
(*            its two unbounded channels.                                  *)
(*   SseSpec  HttpSseTransport, the Streamable HTTP binding                *)
(*            (crates/mcp-core/src/transport/http_sse.rs): session id,     *)
(*            POST exchange, SSE reader task and receiver channel.         *)
(*            EventSpec, StatusSpec and ReaderSpec run the same transport  *)
(*            over event ids, status codes and several event streams.      *)
(*   ConfigSpec     HttpSseTransport::new and validate_session_id.         *)
(*   FlowSpec       NegotiationFlow::execute (crates/mcp-cli/src/flows/    *)
(*                  mod.rs) over HttpSseTransport.                         *)
(*   ClientSpec     the typed wrappers of McpClient (tui.rs, test.rs).     *)
(*   ValidatorSpec  ValidationEngine::validate (commands/validation.rs).   *)
(*                                                                         *)
(* Every Transport method takes `&mut self`, so at most one method call of *)
(* a transport is in progress at a time; what runs concurrently with a     *)
(* call is the spawned task and the server.  `call` / `sse_call` hold the  *)
(* call in progress.                                                       *)
(***************************************************************************)
EXTENDS Integers, Sequences, FiniteSets, TLC

\* ------------------------------------------------------------------ bounds
MaxId == 2          \* request ids are 1..MaxId
MaxCalls == 2       \* send_request calls (oneshot channels) per behaviour
MaxQueue == 2       \* messages held in an unbounded channel at a time

\* --------------------------------------------------------- program constants
MAX_RETRIES == 5            \* http_stream.rs:44
MinSessionIdLen == 16       \* http_sse.rs:211

Ids == 1..MaxId
Chans == 1..MaxCalls
NoMsg == [type |-> "None", id |-> 0]

\* JsonRpcMessage as the transports see it: its variant and, for a response
\* or a client request, the id.
Response(id) == [type |-> "Response", id |-> id]
\* A notification has no id: for it the field stands for its payload (method
\* and params), which is what tells two notifications apart.
NotificationOf(p) == [type |-> "Notification", id |-> p]
Notification == NotificationOf(0)
ServerRequest == [type |-> "Request", id |-> 0]
ServerMsgs == {Response(i) : i \in Ids} \cup {Notification, ServerRequest}

VARIABLES
    \* ---- HttpStreamTransport
    connection,         \* Option<StreamingConnection>: "None" | "Some"
    task,               \* the spawned connection task: [pc, retry_count]
    outbound,           \* outbound channel: messages send() queued for the task
    inbound,            \* inbound channel: messages the task parsed off the stream
    pending_requests,   \* HashMap id -> oneshot sender, 0 = no entry
    oneshot,            \* the oneshot channel of each send_request call
    nchan,              \* oneshot channels created so far
    call,               \* the method call holding `&mut self`
    ret,                \* what the last finished call returned
    \* ---- HttpSseTransport
    sse_connected,      \* info.connected
    session_id,         \* Option<String>
    sse_receiver,       \* Option<UnboundedReceiver>, with the queue it reads
    sse_task,           \* the reader task feeding sse_receiver
    detached,           \* a reader task whose handle was overwritten is
                        \* still running
    sse_call,           \* the POST exchange of the call holding `&mut self`
    sse_ret,            \* what the last finished call returned
    first_post,         \* the Mcp-Session-Id header of the first POST made
    last_event_id,      \* Option<String>, the transport's field
    task_last_event_id, \* `last_event_id` local to the reader task
    resume_get,         \* the GET of the last resume_sse_connection call
    surfaced,           \* notifications queued for receive_message, in the
                        \* order the reader task surfaced them
    \* ---- HttpSseTransport::new and validate_session_id, as functions
    config,             \* the TransportConfig given to new()
    new_result,         \* what new() returned
    candidate,          \* an Mcp-Session-Id header value of a reply
    verdict,            \* what send_mcp_request made of that header value
    \* ---- NegotiationFlow (flows/mod.rs)
    steps,              \* flow.steps, the names of the chained steps
    retry_policy,       \* config.retry_policy
    context_state,      \* context.state, the NegotiationState variant
    init_response,      \* context.metadata holds "init_response"
    flow_pc,            \* where execute() is: built, loop, step, sleep, returned
    index,              \* index of the step being run (1-based)
    attempts,           \* `attempts` of the step being run
    delay,              \* the backoff delay computed last, in ms
    flow_result,        \* what execute() returned
    clock,              \* ms since execute() was called
    completed,          \* the steps that succeeded, in order, each with
                        \* the number of attempts it took
    initialized_received, \* `initialized` notifications that reached the server
    \* ---- client wrappers and ValidationEngine
    reply,              \* what the server makes of the wrapper's request
    request,            \* the method of the wrapper called ("none": not yet)
    wrapper_ret,        \* what the wrapper returned
    results,            \* ValidationEngine.results
    val_pc,             \* where run_validation_suite is, or what validate()
                        \* returned
    sent,               \* the methods of the messages the validator sent
    server_info,        \* what test_initialization returned
    tools               \* the tools the server under validation exposes

streamVars == <<connection, task, outbound, inbound, pending_requests, oneshot,
                nchan, call, ret>>


\* `call`: op and oneshot channel of the call in progress, with what an
\* observer of the call has seen so far: its id was still registered for an
\* outstanding request when it registered (reused), its request reached the
\* server (posted), the response with its id came off the stream (answered).
sseVars == <<sse_connected, session_id, sse_receiver, sse_task, detached, sse_call,
             sse_ret, first_post, last_event_id, task_last_event_id,
             resume_get, surfaced>>

configVars == <<config, new_result, candidate, verdict>>

flowVars == <<steps, retry_policy, context_state, init_response, flow_pc, index,
              attempts, delay, flow_result, clock, completed,
              initialized_received>>

cliVars == <<reply, request, wrapper_ret, results, val_pc, sent, server_info,
             tools>>

vars == <<streamVars, sseVars, configVars, flowVars, cliVars>>

\* What an action of one component leaves alone: the other components.
notStreamVars == <<sseVars, configVars, flowVars, cliVars>>
notSseVars == <<streamVars, configVars, flowVars, cliVars>>
notConfigVars == <<streamVars, sseVars, flowVars, cliVars>>
notFlowVars == <<streamVars, sseVars, configVars, cliVars>>
notCliVars == <<streamVars, sseVars, configVars, flowVars>>

Idle == [op |-> "idle", chan |-> 0, reused |-> FALSE, posted |-> FALSE,
         answered |-> FALSE]
NoRet == [op |-> "none", kind |-> "none", msg |-> NoMsg, chan |-> 0,
          answered |-> FALSE]
Ret(op, kind, msg) ==
    [op |-> op, kind |-> kind, msg |-> msg, chan |-> 0, answered |-> FALSE]

\* A oneshot channel: the request id it was registered under; its sender
\* (held in the table, sent, or dropped: replaced by a later insert, cleared
\* by disconnect, failed on a send to a dropped receiver); its receiver; the
\* value sent; what its send_request call returned.
UnusedChan == [id |-> 0, tx |-> "unused", rx |-> "unused", value |-> NoMsg,
               result |-> "none"]

NoTask == [pc |-> "none", retry_count |-> 0]

StreamInit ==
    /\ connection = "None"
    /\ task = NoTask
    /\ outbound = <<>>
    /\ inbound = <<>>
    /\ pending_requests = [i \in Ids |-> 0]
    /\ oneshot = [c \in Chans |-> UnusedChan]
    /\ nchan = 0
    /\ call = Idle
    /\ ret = NoRet


\* connect(): builds a new StreamingConnection (fresh channels, fresh task)
\* and stores it, whatever `connection` held before.
Connect ==
    /\ call = Idle
    /\ connection' = "Some"
    /\ task' = [pc |-> "establish", retry_count |-> 0]
    /\ outbound' = <<>>
    /\ inbound' = <<>>
    /\ ret' = Ret("connect", "Ok", NoMsg)
    /\ UNCHANGED <<pending_requests, oneshot, nchan, call>>
    /\ UNCHANGED notStreamVars

\* ---- the spawned connection task (StreamingConnection::new, handle_stream)

\* establish_stream succeeded: the retry count is reset and the stream is handled.
EstablishOk ==
    /\ task.pc = "establish"
    /\ task' = [pc |-> "stream", retry_count |-> 0]
    /\ UNCHANGED <<connection, outbound, inbound, pending_requests, oneshot,
                   nchan, call, ret>>
    /\ UNCHANGED notStreamVars

\* The task's loop after a failed establish_stream: one more retry, and after
\* MAX_RETRIES the task ends, dropping outbound_receiver and inbound_sender.
AfterEstablishFail(t) ==
    IF t.retry_count + 1 < MAX_RETRIES
    THEN [pc |-> "establish", retry_count |-> t.retry_count + 1]
    ELSE [pc |-> "ended", retry_count |-> t.retry_count + 1]

EstablishFail ==
    /\ task.pc = "establish"
    /\ task' = AfterEstablishFail(task)
    /\ UNCHANGED <<connection, outbound, inbound, pending_requests, oneshot,
                   nchan, call, ret>>
    /\ UNCHANGED notStreamVars

\* Bookkeeping of the observer: the response with the waiting call's own id
\* comes off the stream after its request reached the server.
MarkAnswered(cl, m) ==
    IF /\ cl.op = "send_request"
       /\ m.type = "Response"
       /\ oneshot[cl.chan].id = m.id
       /\ cl.posted
    THEN [cl EXCEPT !.answered = TRUE]
    ELSE cl

\* handle_stream, stream branch: a complete JSON line that parses is sent to
\* the inbound channel.
StreamRecv(m) ==
    /\ task.pc = "stream"
    /\ Len(inbound) < MaxQueue
    /\ inbound' = Append(inbound, m)
    /\ call' = MarkAnswered(call, m)
    /\ UNCHANGED <<connection, task, outbound, pending_requests, oneshot,
                   nchan, ret>>
    /\ UNCHANGED notStreamVars

\* handle_stream returns (stream ended, or a read error): the task's loop
\* goes back to establish_stream with retry_count as it is.
StreamLost ==
    /\ task.pc = "stream"
    /\ task' = [task EXCEPT !.pc = "establish"]
    /\ UNCHANGED <<connection, outbound, inbound, pending_requests, oneshot,
                   nchan, call, ret>>
    /\ UNCHANGED notStreamVars

\* handle_stream, outbound branch: the next queued message is POSTed by
\* send_message; a failed POST makes handle_stream return the error.
OutboundPost(ok) ==
    /\ task.pc = "stream"
    /\ outbound # <<>>
    /\ outbound' = Tail(outbound)
    /\ task' = IF ok THEN task ELSE [task EXCEPT !.pc = "establish"]
    /\ call' = IF ok /\ Head(outbound).type = "Request"
                     /\ Head(outbound).chan = call.chan
                THEN [call EXCEPT !.posted = TRUE]
                ELSE call
    /\ UNCHANGED <<connection, inbound, pending_requests, oneshot, nchan, ret>>
    /\ UNCHANGED notStreamVars

\* ---- HttpStreamTransport::send_request

\* pending.insert(request_id, response_sender): the entry of the id is set to
\* the new sender.
Register(pending, id, c) == [pending EXCEPT ![id] = c]

\* HashMap::insert returns the sender the id had, which is dropped.
DropReplaced(os, old) ==
    IF old = 0 THEN os
    ELSE [os EXCEPT ![old].tx = "replaced"]

\* The id is registered for an earlier request that is still outstanding: its
\* caller gave up the wait, and it neither completed nor timed out.
StillOutstanding(os, old) ==
    /\ old # 0
    /\ os[old].result = "Cancelled"

SendRequest(id) ==
    /\ call = Idle
    /\ IF connection = "None"
       THEN /\ ret' = Ret("send_request", "NotConnected", NoMsg)
            /\ UNCHANGED <<connection, task, outbound, inbound,
                           pending_requests, oneshot, nchan, call>>
       ELSE /\ nchan < MaxCalls
            /\ Len(outbound) < MaxQueue
            /\ LET c == nchan + 1
                   old == pending_requests[id]
                   fresh == [UnusedChan EXCEPT !.id = id, !.tx = "held",
                                 !.rx = "waiting"]
                   os == [DropReplaced(oneshot, old) EXCEPT ![c] = fresh]
               IN /\ nchan' = c
                  /\ pending_requests' = Register(pending_requests, id, c)
                  /\ IF task.pc = "ended"
                     THEN \* connection.send(..)? fails: the receiver is gone
                          /\ oneshot' = [os EXCEPT ![c].rx = "dropped",
                                            ![c].result = "ConnectionError"]
                          /\ ret' = Ret("send_request", "ConnectionError", NoMsg)
                          /\ UNCHANGED <<outbound, call>>
                     ELSE /\ oneshot' = os
                          /\ outbound' = Append(outbound,
                                 [type |-> "Request", id |-> id, chan |-> c])
                          /\ call' = [Idle EXCEPT !.op = "send_request",
                                 !.chan = c,
                                 !.reused = StillOutstanding(oneshot, old)]
                          /\ UNCHANGED ret
            /\ UNCHANGED <<connection, task, inbound>>
    /\ UNCHANGED notStreamVars

\* timeout(timeout_duration, response_receiver) and the two map_err: what the
\* waiter of a channel is resolved with.
WaiterOutcome(ch) ==
    CASE ch.tx = "sent" -> "Response"
      [] ch.tx \in {"replaced", "cleared", "failed"} -> "NetworkError"
      [] OTHER -> "TimeoutError"

\* The table after a send_request ends in a timeout: the code leaves it as
\* it is.
AfterTimeout(pending, id) == pending

SendRequestReturn ==
    /\ call.op = "send_request"
    /\ LET c == call.chan
           kind == WaiterOutcome(oneshot[c])
       IN /\ oneshot' = [oneshot EXCEPT ![c].rx = "dropped", ![c].result = kind]
          /\ ret' = [Ret("send_request", kind, oneshot[c].value)
                        EXCEPT !.chan = c, !.answered = call.answered]
          /\ pending_requests' =
                IF kind = "TimeoutError"
                THEN AfterTimeout(pending_requests, oneshot[c].id)
                ELSE pending_requests
    /\ call' = Idle
    /\ UNCHANGED <<connection, task, outbound, inbound, nchan>>
    /\ UNCHANGED notStreamVars

\* The caller drops the future of the call in progress (an outer
\* tokio::time::timeout around it fires): the receiver is dropped with it.
CancelCall ==
    /\ call.op \in {"send_request", "receive_message"}
    /\ oneshot' = IF call.op = "send_request"
                  THEN [oneshot EXCEPT ![call.chan].rx = "dropped",
                                       ![call.chan].result = "Cancelled"]
                  ELSE oneshot
    /\ ret' = Ret(call.op, "Cancelled", NoMsg)
    /\ call' = Idle
    /\ UNCHANGED <<connection, task, outbound, inbound, pending_requests,
                   nchan>>
    /\ UNCHANGED notStreamVars

\* ---- HttpStreamTransport::send_notification
SendNotification ==
    /\ call = Idle
    /\ IF connection = "None"
       THEN /\ ret' = Ret("send_notification", "NotConnected", NoMsg)
            /\ UNCHANGED outbound
       ELSE IF task.pc = "ended"
       THEN /\ ret' = Ret("send_notification", "ConnectionError", NoMsg)
            /\ UNCHANGED outbound
       ELSE /\ Len(outbound) < MaxQueue
            /\ outbound' = Append(outbound,
                   [type |-> "Notification", id |-> 0, chan |-> 0])
            /\ ret' = Ret("send_notification", "Ok", NoMsg)
    /\ UNCHANGED <<connection, task, inbound, pending_requests, oneshot,
                   nchan, call>>
    /\ UNCHANGED notStreamVars

\* ---- HttpStreamTransport::receive_message

ReceiveMessage ==
    /\ call = Idle
    /\ IF connection = "None"
       THEN /\ ret' = Ret("receive_message", "NotConnected", NoMsg)
            /\ UNCHANGED call
       ELSE /\ call' = [Idle EXCEPT !.op = "receive_message"]
            /\ UNCHANGED ret
    /\ UNCHANGED <<connection, task, outbound, inbound, pending_requests,
                   oneshot, nchan>>
    /\ UNCHANGED notStreamVars

\* sender.send(response): delivered when the receiver is still there;
\* otherwise the value comes back as an Err, which the code ignores.
OneshotSend(ch, m) ==
    IF ch.rx = "waiting"
    THEN [ch EXCEPT !.tx = "sent", !.value = m]
    ELSE [ch EXCEPT !.tx = "failed"]

\* Whether receive_message hands the message to a waiter (and then receives
\* again) instead of returning it.
Correlated(pending, m) == m.type = "Response" /\ pending[m.id] # 0

ReceiveDeliver ==
    /\ call.op = "receive_message"
    /\ inbound # <<>>
    /\ LET m == Head(inbound)
       IN /\ inbound' = Tail(inbound)
          /\ IF Correlated(pending_requests, m)
             THEN LET c == pending_requests[m.id]
                  IN /\ pending_requests' = [pending_requests EXCEPT ![m.id] = 0]
                     /\ oneshot' = [oneshot EXCEPT ![c] = OneshotSend(@, m)]
                     /\ UNCHANGED <<call, ret>>
             ELSE /\ ret' = Ret("receive_message", m.type, m)
                  /\ call' = Idle
                  /\ UNCHANGED <<pending_requests, oneshot>>
    /\ UNCHANGED <<connection, task, outbound, nchan>>
    /\ UNCHANGED notStreamVars

\* StreamingConnection::receive: nothing queued before the timeout.
ReceiveTimeout ==
    /\ call.op = "receive_message"
    /\ inbound = <<>>
    /\ task.pc # "ended"
    /\ ret' = Ret("receive_message", "TimeoutError", NoMsg)
    /\ call' = Idle
    /\ UNCHANGED <<connection, task, outbound, inbound, pending_requests,
                   oneshot, nchan>>
    /\ UNCHANGED notStreamVars

\* StreamingConnection::receive: recv() yields None once the task has ended
\* (inbound_sender dropped) and the queue is drained.
ReceiveClosed ==
    /\ call.op = "receive_message"
    /\ inbound = <<>>
    /\ task.pc = "ended"
    /\ ret' = Ret("receive_message", "DisconnectedError", NoMsg)
    /\ call' = Idle
    /\ UNCHANGED <<connection, task, outbound, inbound, pending_requests,
                   oneshot, nchan>>
    /\ UNCHANGED notStreamVars

\* ---- HttpStreamTransport::disconnect

\* pending.clear(): every sender still in the table is dropped.
ClearPending(os, pending) ==
    [c \in Chans |->
        IF \E i \in Ids : pending[i] = c
        THEN [os[c] EXCEPT !.tx = "cleared"]
        ELSE os[c]]

Disconnect ==
    /\ call = Idle
    /\ connection' = "None"
    /\ task' = IF connection = "Some" THEN [task EXCEPT !.pc = "aborted"] ELSE task
    /\ outbound' = <<>>
    /\ inbound' = <<>>
    /\ oneshot' = ClearPending(oneshot, pending_requests)
    /\ pending_requests' = [i \in Ids |-> 0]
    /\ ret' = Ret("disconnect", "Ok", NoMsg)
    /\ UNCHANGED <<nchan, call>>
    /\ UNCHANGED notStreamVars

StreamNext ==
    \/ Connect
    \/ EstablishOk
    \/ EstablishFail
    \/ \E m \in ServerMsgs : StreamRecv(m)
    \/ StreamLost
    \/ \E ok \in BOOLEAN : OutboundPost(ok)
    \/ \E id \in Ids : SendRequest(id)
    \/ SendRequestReturn
    \/ CancelCall
    \/ SendNotification
    \/ ReceiveMessage
    \/ ReceiveDeliver
    \/ ReceiveTimeout
    \/ ReceiveClosed
    \/ Disconnect

\* ======================================================================
\* HttpSseTransport (Streamable HTTP), http_sse.rs
\* ======================================================================

\* Option<String>
NoneStr == [some |-> FALSE, val |-> <<>>]
Some(v) == [some |-> TRUE, val |-> v]

\* A string is kept run-length encoded: a sequence of runs [ch, n], n copies of
\* the character ch.  "eacute" stands for U+00E9, a letter outside ASCII that
\* takes two bytes in UTF-8.
IsAlphanumeric(c) == c \in {"a", "b", "Z", "7", "eacute"}   \* char::is_alphanumeric
IsVisibleAscii(c) == c # "eacute"                      \* HeaderValue::to_str
Utf8Len(c) == IF c = "eacute" THEN 2 ELSE 1

\* str::len(): the length in bytes.
RECURSIVE ByteLen(_)
ByteLen(str) ==
    IF str = <<>> THEN 0
    ELSE Head(str).n * Utf8Len(Head(str).ch) + ByteLen(Tail(str))

Run(c, n) == [ch |-> c, n |-> n]

\* SecurityConfig::default(): validate_session_ids is true and nothing
\* changes it.
validate_session_ids == TRUE

\* validate_session_id: Ok, or the reason of the InvalidConfig error.
ValidateSessionId(str) ==
    IF ~validate_session_ids THEN "Ok"
    ELSE IF ByteLen(str) < MinSessionIdLen THEN "TooShort"
    ELSE IF \E i \in 1..Len(str) : ~(IsAlphanumeric(str[i].ch) \/ str[i].ch = "-")
         THEN "InvalidChars"
    ELSE "Ok"

\* The Mcp-Session-Id values a server reply may carry.
SidA == <<Run("a", MinSessionIdLen)>>
SidB == <<Run("7", 8), Run("-", 1), Run("b", MinSessionIdLen - 5)>>
SidShort == <<Run("b", MinSessionIdLen - 1)>>
SidBadChar == <<Run("@", 1), Run("a", MinSessionIdLen)>>
SidNonAscii == <<Run("eacute", MinSessionIdLen)>>
ReplyHeaders ==
    {NoneStr} \cup {Some(v) : v \in {SidA, SidB, SidShort, SidBadChar, SidNonAscii}}

ContentTypes == {"application/json", "text/event-stream", "text/html"}

\* `status` is the status code of the HTTP reply the call received (0: no
\* reply arrived).
SseIdle == [op |-> "idle", id |-> 0, header |-> NoneStr, phase |-> "none",
            status |-> 0]
SseRet(op, kind, msg, id) ==
    [op |-> op, kind |-> kind, msg |-> msg, id |-> id, status |-> 0]
NoSseRet == SseRet("none", "none", NoMsg, 0)

\* StatusCode::is_success
IsSuccess(status) == status >= 200 /\ status < 300

\* sse_receiver: `opener` is the id of the request whose POST the server
\* answered with the event stream the receiver reads (0: none), `returned`
\* what the send_request of that request returned.
NoReceiver == [some |-> FALSE, queue |-> <<>>, opener |-> 0, returned |-> "none"]

NoPost == [sent |-> FALSE, header |-> NoneStr]

\* resume_get: whether the last resume_sse_connection call issued its GET,
\* and the Last-Event-ID header of that GET.
NoResume == [sent |-> FALSE, header |-> NoneStr]

SseInit ==
    /\ sse_connected = FALSE
    /\ session_id = NoneStr
    /\ sse_receiver = NoReceiver
    /\ sse_task = "none"
    /\ detached = FALSE
    /\ sse_call = SseIdle
    /\ sse_ret = NoSseRet
    /\ first_post = NoPost
    /\ last_event_id = NoneStr
    /\ task_last_event_id = NoneStr
    /\ resume_get = NoResume
    /\ surfaced = <<>>

\* connect(): a HEAD request; any reply marks the transport connected.
SseConnect(ok) ==
    /\ sse_call = SseIdle
    /\ sse_connected' = (IF ok THEN TRUE ELSE sse_connected)
    /\ sse_ret' = SseRet("connect", IF ok THEN "Ok" ELSE "ConnectionError", NoMsg, 0)
    /\ UNCHANGED <<session_id, sse_receiver, sse_task, detached, sse_call, first_post,
                   last_event_id, task_last_event_id, resume_get, surfaced>>
    /\ UNCHANGED notSseVars

\* disconnect(): DELETE with the session header, drop the receiver, abort
\* the reader task, forget the session id, mark disconnected.
SseDisconnect ==
    /\ sse_call = SseIdle
    /\ sse_receiver' = NoReceiver
    /\ sse_task' = IF sse_task = "none" THEN "none" ELSE "aborted"
    /\ UNCHANGED detached
    /\ session_id' = NoneStr
    /\ sse_connected' = FALSE
    /\ sse_ret' = SseRet("disconnect", "Ok", NoMsg, 0)
    /\ surfaced' = <<>>
    /\ UNCHANGED <<sse_call, first_post, last_event_id, task_last_event_id,
                   resume_get>>
    /\ UNCHANGED notSseVars

\* send_mcp_request: `if let Some(ref session_id) = self.session_id` adds the
\* Mcp-Session-Id header to the POST.
RequestSessionHeader(sid) == sid

NotificationHeaderOmitted(sid) == NoneStr

\* send_notification: the same for the POST of a notification.
NotificationSessionHeader(sid) == sid

RecordFirstPost(fp, header) ==
    IF fp.sent THEN fp ELSE [sent |-> TRUE, header |-> header]

\* send_request up to the point where the POST is on the wire.
SseSendRequest(id) ==
    /\ sse_call = SseIdle
    /\ IF ~sse_connected
       THEN /\ sse_ret' = SseRet("send_request", "NotConnected", NoMsg, id)
            /\ UNCHANGED <<sse_call, first_post>>
       ELSE /\ sse_call' = [op |-> "send_request", id |-> id,
                            header |-> RequestSessionHeader(session_id),
                            phase |-> "sent", status |-> 0]
            /\ first_post' = RecordFirstPost(first_post,
                                             RequestSessionHeader(session_id))
            /\ UNCHANGED sse_ret
    /\ UNCHANGED <<sse_connected, session_id, sse_receiver, sse_task, detached,
                   last_event_id, task_last_event_id, resume_get, surfaced>>
    /\ UNCHANGED notSseVars

\* send_notification up to the point where the POST is on the wire.
SseSendNotification ==
    /\ sse_call = SseIdle
    /\ IF ~sse_connected
       THEN /\ sse_ret' = SseRet("send_notification", "NotConnected", NoMsg, 0)
            /\ UNCHANGED <<sse_call, first_post>>
       ELSE /\ sse_call' = [op |-> "send_notification", id |-> 0,
                            header |-> NotificationSessionHeader(session_id),
                            phase |-> "sent", status |-> 0]
            /\ first_post' = RecordFirstPost(first_post,
                                             NotificationSessionHeader(session_id))
            /\ UNCHANGED sse_ret
    /\ UNCHANGED <<sse_connected, session_id, sse_receiver, sse_task, detached,
                   last_event_id, task_last_event_id, resume_get, surfaced>>
    /\ UNCHANGED notSseVars

\* request_builder.send() fails: NetworkError, for a request and for a
\* notification.
SsePostFail ==
    /\ sse_call.op # "idle"
    /\ sse_call.phase = "sent"
    /\ sse_ret' = SseRet(sse_call.op, "NetworkError", NoMsg, sse_call.id)
    /\ sse_call' = SseIdle
    /\ UNCHANGED <<sse_connected, session_id, sse_receiver, sse_task, detached, first_post,
                   last_event_id, task_last_event_id, resume_get, surfaced>>
    /\ UNCHANGED notSseVars

\* send_notification: any reply to the POST is a success; its status, headers
\* and body are not looked at.
SseNotificationReply(status) ==
    /\ sse_call.op = "send_notification"
    /\ sse_ret' = [SseRet("send_notification", "Ok", NoMsg, 0)
                      EXCEPT !.status = status]
    /\ sse_call' = SseIdle
    /\ UNCHANGED <<sse_connected, session_id, sse_receiver, sse_task, detached, first_post,
                   last_event_id, task_last_event_id, resume_get, surfaced>>
    /\ UNCHANGED notSseVars

\* send_request: the timeout around send_mcp_request elapses while the POST
\* or the reading of the body is pending.
SseRequestTimeout ==
    /\ sse_call.op = "send_request"
    /\ sse_ret' = [SseRet("send_request", "TimeoutError", NoMsg, sse_call.id)
                      EXCEPT !.status = sse_call.status]
    /\ sse_call' = SseIdle
    /\ UNCHANGED <<sse_connected, session_id, sse_receiver, sse_task, detached, first_post,
                   last_event_id, task_last_event_id, resume_get, surfaced>>
    /\ UNCHANGED notSseVars

\* The `mcp-session-id` header of a reply: a value that is not visible ASCII
\* fails to_str() and is skipped; otherwise it is validated.
HeaderVerdict(hdr) ==
    IF ~hdr.some THEN "Absent"
    ELSE IF \E i \in 1..Len(hdr.val) : ~IsVisibleAscii(hdr.val[i].ch) THEN "Skipped"
    ELSE ValidateSessionId(hdr.val)

\* `self.session_id = Some(session_str.to_string())` for a header that
\* passed validation.
StoreSessionId(sid, hdr) == hdr

\* The transport's connected flag after a reply whose session id failed
\* validation: the code returns the error and leaves it as it is.
AfterInvalidSession(connected) == connected

\* send_request for Ok(None), the answer of send_mcp_request to a reply that
\* is an event stream: "Response expected via SSE stream - use
\* receive_message()".
StreamReply(id) == SseRet("send_request", "NetworkError", NoMsg, id)

\* handle_sse_response: a new channel replaces sse_receiver, and a reader
\* task is spawned whose local last_event_id starts as a clone of the
\* transport's field.  Its handle replaces _sse_task_handle: the task of an
\* earlier stream is detached, not aborted.
HandleSseResponse(opener, returned) ==
    /\ sse_receiver' = [some |-> TRUE, queue |-> <<>>, opener |-> opener,
                        returned |-> returned]
    /\ sse_task' = "running"
    /\ detached' = (detached \/ sse_task = "running")
    /\ task_last_event_id' = last_event_id
    /\ surfaced' = <<>>

\* send_mcp_request from the arrival of the reply's status line and headers:
\* session id extraction, then the dispatch on Content-Type.  The status
\* code is logged and nothing else.
SseReply(hdr, ct, status) ==
    /\ sse_call.op = "send_request"
    /\ sse_call.phase = "sent"
    /\ LET v == HeaderVerdict(hdr)
           id == sse_call.id
       IN IF v \in {"TooShort", "InvalidChars"}
          THEN /\ sse_ret' = [SseRet("send_request", "InvalidConfig", NoMsg, id)
                                 EXCEPT !.status = status]
               /\ sse_call' = SseIdle
               /\ sse_connected' = AfterInvalidSession(sse_connected)
               /\ UNCHANGED <<session_id, sse_receiver, sse_task, detached,
                              task_last_event_id, surfaced>>
          ELSE /\ session_id' = IF v = "Ok"
                                THEN StoreSessionId(session_id, hdr)
                                ELSE session_id
               /\ UNCHANGED sse_connected
               /\ CASE ct = "application/json" ->
                         /\ sse_call' = [sse_call EXCEPT !.phase = "body",
                                                         !.status = status]
                         /\ UNCHANGED <<sse_ret, sse_receiver, sse_task, detached,
                                        task_last_event_id, surfaced>>
                    [] ct = "text/event-stream" ->
                         \* handle_sse_response, then Ok(None), which
                         \* send_request turns into a NetworkError
                         /\ HandleSseResponse(id, StreamReply(id).kind)
                         /\ sse_ret' = [StreamReply(id) EXCEPT !.status = status]
                         /\ sse_call' = SseIdle
                    [] OTHER ->
                         /\ sse_ret' = [SseRet("send_request", "NetworkError",
                                               NoMsg, id)
                                           EXCEPT !.status = status]
                         /\ sse_call' = SseIdle
                         /\ UNCHANGED <<sse_receiver, sse_task, detached,
                                        task_last_event_id, surfaced>>
    /\ UNCHANGED <<first_post, last_event_id, resume_get>>
    /\ UNCHANGED notSseVars

\* What send_request returns for a body that parsed as a JsonRpcResponse:
\* the response, whatever id it carries.
JsonReply(id, body) == SseRet("send_request", "Response", body, id)

\* The application/json body has been read: it parses as a response, or it
\* does not (SerializationError).
SseJsonBody(body) ==
    /\ sse_call.op = "send_request"
    /\ sse_call.phase = "body"
    /\ sse_ret' = [(IF body.type = "Response"
                    THEN JsonReply(sse_call.id, body)
                    ELSE SseRet("send_request", "SerializationError", NoMsg,
                                sse_call.id))
                      EXCEPT !.status = sse_call.status]
    /\ sse_call' = SseIdle
    /\ UNCHANGED <<sse_connected, session_id, sse_receiver, sse_task, detached, first_post,
                   last_event_id, task_last_event_id, resume_get, surfaced>>
    /\ UNCHANGED notSseVars

\* The ids an SSE event may carry; <<>> is the empty id.
EventIdA == <<Run("a", 1)>>
EventIdB == <<Run("b", 1)>>
EventIds == {<<>>, EventIdA, EventIdB}

\* The reader task: `if !event.id.is_empty() { last_event_id = Some(..) }`
\* assigns the task's local variable.
TrackEventId(local, eid) == IF eid # <<>> THEN Some(eid) ELSE local

EnqueueFront(queue, m) == <<m>> \o queue

\* sender.send(message) on the unbounded channel.
Enqueue(queue, m) == Append(queue, m)

\* The reader task spawned by handle_sse_response takes one event off the
\* stream: it tracks the event id, then sends the event's data to the
\* channel when it parses as a JsonRpcMessage (NoMsg: it does not parse).
SseEvent(m, eid) ==
    /\ sse_task = "running"
    /\ sse_receiver.some
    /\ Len(sse_receiver.queue) < MaxQueue
    /\ task_last_event_id' = TrackEventId(task_last_event_id, eid)
    /\ sse_receiver' = IF m = NoMsg THEN sse_receiver
                       ELSE [sse_receiver EXCEPT !.queue = Enqueue(@, m)]
    /\ surfaced' = IF m.type = "Notification" THEN Append(surfaced, m)
                   ELSE surfaced
    /\ UNCHANGED <<sse_connected, session_id, sse_task, detached, sse_call, sse_ret,
                   first_post, last_event_id, resume_get>>
    /\ UNCHANGED notSseVars

\* The event stream ends or fails: the task leaves its loop and its sender
\* is dropped.  task_last_event_id keeps what the task's local held.
SseStreamEnd ==
    /\ sse_task = "running"
    /\ sse_task' = "ended"
    /\ UNCHANGED detached
    /\ UNCHANGED <<sse_connected, session_id, sse_receiver, sse_call, sse_ret,
                   first_post, last_event_id, task_last_event_id, resume_get,
                   surfaced>>
    /\ UNCHANGED notSseVars

\* receive_message: what it returns for the receiver and task as they are.
ReceiveOutcome(connected, receiver, tsk) ==
    IF ~connected \/ ~receiver.some THEN SseRet("receive_message", "NotConnected", NoMsg, 0)
    ELSE IF receiver.queue # <<>>
         THEN SseRet("receive_message", Head(receiver.queue).type, Head(receiver.queue), 0)
    ELSE IF tsk = "running"
         THEN SseRet("receive_message", "TimeoutError", NoMsg, 0)
    ELSE SseRet("receive_message", "DisconnectedError", NoMsg, 0)

\* The sequence without its first element equal to m.
RECURSIVE RemoveFirst(_, _)
RemoveFirst(seq, m) ==
    IF seq = <<>> THEN <<>>
    ELSE IF Head(seq) = m THEN Tail(seq)
    ELSE <<Head(seq)>> \o RemoveFirst(Tail(seq), m)

SseReceiveMessage ==
    /\ sse_call = SseIdle
    /\ sse_ret' = ReceiveOutcome(sse_connected, sse_receiver, sse_task)
    /\ sse_receiver' = IF sse_connected /\ sse_receiver.some /\ sse_receiver.queue # <<>>
                       THEN [sse_receiver EXCEPT !.queue = Tail(@)]
                       ELSE sse_receiver
    /\ surfaced' = IF sse_ret'.kind = "Notification"
                   THEN RemoveFirst(surfaced, sse_ret'.msg)
                   ELSE surfaced
    /\ UNCHANGED <<sse_connected, session_id, sse_task, detached, sse_call, first_post,
                   last_event_id, task_last_event_id, resume_get>>
    /\ UNCHANGED notSseVars

\* resume_sse_connection: with a last_event_id, a GET carrying it as
\* Last-Event-ID (and the session id), whose reply must be an event stream;
\* without one, Ok(()) and nothing else.
SseResume(outcome) ==
    /\ sse_call = SseIdle
    /\ IF last_event_id.some
       THEN /\ resume_get' = [sent |-> TRUE, header |-> last_event_id]
            /\ CASE outcome = "send failed" ->
                      /\ sse_ret' = SseRet("resume_sse_connection",
                                           "NetworkError", NoMsg, 0)
                      /\ UNCHANGED <<sse_receiver, sse_task, detached,
                                     task_last_event_id, surfaced>>
                 [] outcome = "text/event-stream" ->
                      /\ HandleSseResponse(0, "none")
                      /\ sse_ret' = SseRet("resume_sse_connection", "Ok", NoMsg, 0)
                 [] OTHER ->
                      /\ sse_ret' = SseRet("resume_sse_connection",
                                           "NetworkError", NoMsg, 0)
                      /\ UNCHANGED <<sse_receiver, sse_task, detached,
                                     task_last_event_id, surfaced>>
       ELSE /\ resume_get' = NoResume
            /\ sse_ret' = SseRet("resume_sse_connection", "Ok", NoMsg, 0)
            /\ UNCHANGED <<sse_receiver, sse_task, detached, task_last_event_id, surfaced>>
    /\ UNCHANGED <<sse_connected, session_id, sse_call, first_post, last_event_id>>
    /\ UNCHANGED notSseVars

\* The last reader task running detached leaves its loop: its stream ends
\* or fails, or it parses a message and the send to the channel whose
\* receiver was replaced fails.
SseDetachedEnd ==
    /\ detached
    /\ detached' = FALSE
    /\ UNCHANGED <<sse_connected, session_id, sse_receiver, sse_task, sse_call,
                   sse_ret, first_post, last_event_id, task_last_event_id,
                   resume_get, surfaced>>
    /\ UNCHANGED notSseVars

ResumeOutcomes == {"send failed", "text/event-stream", "application/json"}

JsonBodies == {Response(i) : i \in Ids} \cup {NoMsg}

\* SseSpec: the POST exchange and the session id.  Every reply has status
\* 200 and the events of a stream carry no id.
SseNext ==
    \/ \E ok \in BOOLEAN : SseConnect(ok)
    \/ SseDisconnect
    \/ \E id \in Ids : SseSendRequest(id)
    \/ SseSendNotification
    \/ SsePostFail
    \/ SseNotificationReply(200)
    \/ SseRequestTimeout
    \/ \E hdr \in ReplyHeaders, ct \in ContentTypes : SseReply(hdr, ct, 200)
    \/ \E body \in JsonBodies : SseJsonBody(body)
    \/ \E m \in ServerMsgs : SseEvent(m, <<>>)
    \/ SseStreamEnd
    \/ SseReceiveMessage

\* EventSpec: the event stream.  Events carry ids and notifications carry
\* distinct payloads; replies carry no session id.
EventMsgs == {NotificationOf(p) : p \in 1..MaxId} \cup {Response(1), NoMsg}

EventNext ==
    \/ SseConnect(TRUE)
    \/ SseDisconnect
    \/ SseSendRequest(1)
    \/ SseReply(NoneStr, "text/event-stream", 200)
    \/ \E m \in EventMsgs, eid \in EventIds : SseEvent(m, eid)
    \/ SseStreamEnd
    \/ SseReceiveMessage
    \/ \E outcome \in ResumeOutcomes : SseResume(outcome)

\* ReaderSpec: the reader tasks of the event streams.
ReaderNext ==
    \/ SseConnect(TRUE)
    \/ SseDisconnect
    \/ \E id \in Ids : SseSendRequest(id)
    \/ SseReply(NoneStr, "text/event-stream", 200)
    \/ \E m \in EventMsgs : SseEvent(m, <<>>)
    \/ SseStreamEnd
    \/ SseDetachedEnd
    \/ SseReceiveMessage

\* StatusSpec: the status code of the replies.
Statuses == {200, 204, 404, 500}

StatusNext ==
    \/ SseConnect(TRUE)
    \/ SseDisconnect
    \/ \E id \in Ids : SseSendRequest(id)
    \/ SseSendNotification
    \/ SsePostFail
    \/ \E status \in Statuses : SseNotificationReply(status)
    \/ SseRequestTimeout
    \/ \E ct \in ContentTypes, status \in Statuses : SseReply(NoneStr, ct, status)
    \/ \E body \in JsonBodies : SseJsonBody(body)

\* ======================================================================
\* The typed client wrappers (crates/mcp-cli/src/tui.rs, commands/test.rs)
\* and the validator's capability listings (commands/validation.rs)
\* ======================================================================

\* serde_json::Value: its kind and what it holds (the elements of an array,
\* the members of an object as a function from keys).  Absent stands for a
\* key or element that is not there.
Json(kind, val) == [kind |-> kind, val |-> val]
Absent == Json("absent", 0)

\* The members a key contributes to an object: none when its value is
\* Absent.
Field(key, v) == IF v = Absent THEN [k \in {} |-> Absent] ELSE key :> v

\* What serde hands to a field of a derived struct: the member with the
\* field's name for an object (unknown members are ignored), the element at
\* the field's position for an array.
StructField(v, key, pos) ==
    IF v.kind = "object"
    THEN IF key \in DOMAIN v.val THEN v.val[key] ELSE Absent
    ELSE IF v.kind = "array" /\ pos <= Len(v.val) THEN v.val[pos]
    ELSE Absent

\* The values a derived struct of n fields whose last has no default is
\* read from: any object, or an array of exactly n elements.
StructShape(v, n) == v.kind = "object" \/ (v.kind = "array" /\ Len(v.val) = n)

\* ToolResult (#[serde(tag = "type")]); of its variants the values drawn
\* hold Text only.
IsToolResult(v) ==
    /\ v.kind = "object"
    /\ StructField(v, "type", 1) = Json("string", "text")
    /\ StructField(v, "text", 2).kind = "string"

\* A value as serde_json writes it: to_string on one line ("compact"),
\* to_string_pretty indented over several lines ("pretty"); the two differ
\* for an array or object that is not empty.  A text that is the content of
\* a JSON string has layout "raw".
Written(v, layout) ==
    [json |-> v,
     layout |-> IF v.kind \in {"array", "object"} /\ DOMAIN v.val # {}
                THEN layout ELSE "flat"]

\* serde_json::from_value::<CallToolResponse>(result): content has
\* #[serde(default)], is_error is an Option<bool>.
FromValue(v) ==
    LET c == StructField(v, "content", 1)
        e == StructField(v, "is_error", 2)
    IN IF /\ StructShape(v, 2)
          /\ \/ c = Absent
             \/ c.kind = "array" /\ \A i \in 1..Len(c.val) : IsToolResult(c.val[i])
          /\ e.kind \in {"absent", "null", "bool"}
       THEN [ok |-> TRUE,
             content |-> IF c = Absent THEN <<>>
                         ELSE [i \in 1..Len(c.val) |->
                                  [variant |-> "Text",
                                   text |-> [json |-> StructField(c.val[i], "text", 2),
                                            layout |-> "raw"]]],
             is_error |-> IF e.kind = "bool"
                          THEN (IF e.val THEN "Some(true)" ELSE "Some(false)")
                          ELSE "None"]
       ELSE [ok |-> FALSE, content |-> <<>>, is_error |-> "None"]

\* What a server makes of a request, as the caller's transport sees it: a
\* result, a JSON-RPC error, or no reply (the connection fails or nothing
\* arrives in time).
Reply(kind, value, code) == [kind |-> kind, value |-> value, code |-> code]

\* McpClient::send_request: the response of the server as it is, an error
\* response included; Err when there is none.
ClientSendRequest(r) ==
    IF r.kind \in {"result", "error"}
    THEN [ok |-> TRUE, result |-> r.value, error |-> r.code]
    ELSE [ok |-> FALSE, result |-> Absent, error |-> 0]

\* What a wrapper returns.
WrapperErr(why) == [ok |-> FALSE, why |-> why, content |-> <<>>, is_error |-> "None"]
WrapperOk(content, is_error) ==
    [ok |-> TRUE, why |-> "", content |-> content, is_error |-> is_error]

\* The CallToolResponse call_tool makes up around a text.
TextResponse(text) ==
    WrapperOk(<<[variant |-> "Text", text |-> text]>>, "Some(false)")

\* McpClientExt::call_tool from the response of send_request on.
CallToolReturn(response) ==
    IF ~response.ok THEN WrapperErr("send_request")
    ELSE IF response.result = Absent THEN WrapperErr("RequestFailed")
    ELSE LET result == response.result
             parsed == FromValue(result)
         IN IF parsed.ok
            THEN IF parsed.content = <<>> /\ result.kind = "object"
                 THEN TextResponse(Written(result, "pretty"))
                 ELSE WrapperOk(parsed.content, parsed.is_error)
            ELSE TextResponse(IF result.kind \in {"object", "array"}
                              THEN Written(result, "pretty")
                              ELSE Written(result, "compact"))

\* list_tools / list_resources / list_prompts from the response of
\* send_request on: the list under `key` of a result that parses as the
\* List..Response (the list, then an optional cursor), an empty list when
\* the response has no result.
FailWithoutResult(key, response) ==
    IF ~response.ok \/ response.result = Absent THEN WrapperErr("send_request")
    ELSE WrapperOk(<<>>, "None")
ListReturn(key, response) ==
    IF ~response.ok THEN WrapperErr("send_request")
    ELSE IF response.result = Absent THEN WrapperOk(<<>>, "None")
    ELSE LET l == StructField(response.result, key, 1)
             c == StructField(response.result, "next_cursor", 2)
         IN IF /\ StructShape(response.result, 2)
               /\ l.kind = "array"
               /\ c.kind \in {"absent", "null", "string"}
            THEN WrapperOk(l.val, "None")
            ELSE WrapperErr("from_value")

\* ---- the values and replies drawn

TextItem == Json("object", [type |-> Json("string", "text"),
                            text |-> Json("string", "hi")])

\* Results of tools/call: objects with or without content, is_error and a
\* member of their own ({"sum": 70}), arrays, scalars.
ToolResults ==
    {Json("object", Field("content", c) @@ Field("is_error", e) @@ Field("sum", s)) :
        c \in {Absent, Json("string", "hi")}
                \cup {Json("array", items) :
                        items \in {<<>>, <<TextItem>>, <<TextItem, TextItem>>,
                                   <<Json("object", [type |-> Json("string", "video")])>>}},
        e \in {Absent, Json("number", 70), Json("bool", TRUE), Json("bool", FALSE)},
        s \in {Absent, Json("number", 70)}}
    \cup {Json("array", s) :
            s \in {<<>>, <<Json("array", <<>>)>>,
                   <<Json("array", <<>>), Json("bool", FALSE)>>,
                   <<Json("array", <<TextItem>>), Json("bool", TRUE)>>,
                   <<Json("array", <<TextItem>>), Json("null", 0)>>,
                   <<Json("number", 70), Json("bool", TRUE)>>,
                   <<Json("array", <<>>), Json("bool", FALSE), Json("number", 70)>>}}
    \cup {Json("number", 70), Json("string", "hi"), Json("bool", TRUE)}

\* Results of the three list methods.
ListResults ==
    {Json("object", Field(key, l)) :
        key \in {"tools", "resources", "prompts"},
        l \in {Json("array", <<>>), Json("array", <<TextItem>>), Json("number", 70)}}

\* The JSON-RPC error code for method not found; -32603 is internal error.
METHOD_NOT_FOUND == -32601
INVALID_PARAMS == -32602

Replies ==
    {Reply("result", v, 0) : v \in ToolResults \cup ListResults}
        \cup {Reply("error", Absent, METHOD_NOT_FOUND), Reply("error", Absent, -32603),
              Reply("failure", Absent, 0)}

\* ---- the wrappers as operations

CallTool ==
    /\ request = "none"
    /\ request' = "tools/call"
    /\ wrapper_ret' = CallToolReturn(ClientSendRequest(reply))
    /\ UNCHANGED <<reply, results, val_pc, sent, server_info, tools>>
    /\ UNCHANGED notCliVars

\* commands/test.rs
ListTools ==
    /\ request = "none"
    /\ request' = "tools/list"
    /\ wrapper_ret' = ListReturn("tools", ClientSendRequest(reply))
    /\ UNCHANGED <<reply, results, val_pc, sent, server_info, tools>>
    /\ UNCHANGED notCliVars

\* tui.rs and commands/test.rs
ListResources ==
    /\ request = "none"
    /\ request' = "resources/list"
    /\ wrapper_ret' = ListReturn("resources", ClientSendRequest(reply))
    /\ UNCHANGED <<reply, results, val_pc, sent, server_info, tools>>
    /\ UNCHANGED notCliVars

ListPrompts ==
    /\ request = "none"
    /\ request' = "prompts/list"
    /\ wrapper_ret' = ListReturn("prompts", ClientSendRequest(reply))
    /\ UNCHANGED <<reply, results, val_pc, sent, server_info, tools>>
    /\ UNCHANGED notCliVars

ClientNext == CallTool \/ ListTools \/ ListResources \/ ListPrompts

\* ---- ValidationEngine (commands/validation.rs)

\* ValidationConfig::default(); `validate` (commands/validate.rs) keeps
\* these values for its default severity.
test_capability_discovery == TRUE
test_error_conditions == TRUE
strict_schema_validation == TRUE
max_tools_to_test == 10

\* A ValidationResult: test_id, category, status, and the start of its
\* message.
Result(test_id, category, status, message) ==
    [test_id |-> test_id, category |-> category, status |-> status,
     message |-> message]

\* add_result for each of `new` in turn, and where run_validation_suite
\* goes next.
AddResults(new, next) ==
    /\ results' = results \o new
    /\ val_pc' = next
    /\ UNCHANGED <<request, wrapper_ret, tools>>
    /\ UNCHANGED notCliVars

AddResult(result, next) == AddResults(<<result>>, next)

\* transport.send_request(request, ..) under timeout(test_timeout, ..):
\* `reply` holds what the server made of the request, `sent` the methods of
\* the messages the validator has given to the transport.
TransportSendRequest(method, r) ==
    /\ reply' = r
    /\ sent' = Append(sent, method)

\* Option<ServerInfo> as test_initialization returns it: whether the
\* capabilities hold `tools`, and available_tools.
NoServerInfo == [some |-> FALSE, tools |-> FALSE, available_tools |-> <<>>]
ServerInfo(init_result) ==
    [some |-> TRUE,
     tools |-> StructField(StructField(init_result, "capabilities", 2),
                           "tools", 1) # Absent,
     available_tools |-> <<>>]

\* create_transport: TransportFactory::create and connect(); a failure is
\* returned with `?` and ends the suite, and validate() returns that Err.
CreateTransport(ok) ==
    /\ val_pc = "new"
    /\ AddResult(Result("transport_connection", "Protocol",
                        IF ok THEN "Pass" ELSE "Critical",
                        IF ok THEN "Successfully connected" ELSE "Failed to connect"),
                 IF ok THEN "initialization" ELSE "Err")
    /\ UNCHANGED <<reply, sent, server_info>>

\* test_initialization: the initialize request under test_timeout.  A result
\* parses as an InitializeResponse when it holds server_info (of its fields
\* the values drawn hold no other but capabilities).
TestInitialization(r) ==
    /\ val_pc = "initialization"
    /\ TransportSendRequest("initialize", r)
    /\ server_info' = IF /\ r.kind = "result"
                         /\ StructField(r.value, "server_info", 1).kind = "object"
                      THEN ServerInfo(r.value) ELSE NoServerInfo
    /\ CASE r.kind = "result" ->
              AddResult(Result("initialization", "Initialization",
                               IF StructField(r.value, "server_info", 1).kind = "object"
                               THEN "Pass" ELSE "Error",
                               IF StructField(r.value, "server_info", 1).kind = "object"
                               THEN "Successfully initialized"
                               ELSE "Invalid initialization response"),
                        "protocol_compliance")
         [] r.kind = "error" ->
              AddResult(Result("initialization", "Initialization", "Error",
                               "Server returned error"),
                        "protocol_compliance")
         [] r.kind = "failure" ->
              AddResult(Result("initialization", "Initialization", "Critical",
                               "Transport error during initialization"),
                        "Err")
         [] OTHER ->
              AddResult(Result("initialization", "Initialization", "Critical",
                               "Initialization timed out"),
                        "Err")

\* test_protocol_compliance, then `if self.config.test_capability_discovery`.
TestProtocolCompliance ==
    /\ val_pc = "protocol_compliance"
    /\ AddResult(Result("json_rpc_compliance", "Protocol", "Pass",
                        "All messages follow JSON-RPC 2.0 specification"),
                 IF test_capability_discovery THEN "tools_listing"
                 ELSE "transport_features")
    /\ UNCHANGED <<reply, sent, server_info>>

\* The result a listing test records for the outcome of
\* timeout(test_timeout, transport.send_request(..)).
ListingResult(test_id, category, r) ==
    CASE r.kind = "result" ->
            Result(test_id, category, "Pass", "Successfully retrieved")
      [] r.kind = "error" ->
            Result(test_id, category, "Warning", "returned no results")
      [] r.kind = "failure" ->
            Result(test_id, category, "Warning", "not supported")
      [] OTHER ->
            Result(test_id, category, "Error", "timed out")

\* What the server answers to tools/list when it answers with a result: the
\* tools it exposes.
ListToolsReply(r) ==
    IF r.kind = "result"
    THEN Reply("result", Json("object", [tools |-> Json("array", tools)]), 0)
    ELSE r

TestToolsListing(r) ==
    /\ val_pc = "tools_listing"
    /\ TransportSendRequest("tools/list", ListToolsReply(r))
    /\ AddResult(ListingResult("tools_listing", "Tools", r), "resources_listing")
    /\ UNCHANGED server_info

TestResourcesListing(r) ==
    /\ val_pc = "resources_listing"
    /\ TransportSendRequest("resources/list", r)
    /\ AddResult(ListingResult("resources_listing", "Resources", r),
                 "prompts_listing")
    /\ UNCHANGED server_info

TestPromptsListing(r) ==
    /\ val_pc = "prompts_listing"
    /\ TransportSendRequest("prompts/list", r)
    /\ AddResult(ListingResult("prompts_listing", "Prompts", r),
                 "transport_features")
    /\ UNCHANGED server_info

\* test_streamable_http_features over the metadata of get_info():
\* session_id and can_resume are always there, security_enabled is
\* reported when true, base_url is a string.
StreamableHttpResults(info) ==
    <<Result("session_management", "Security",
             IF info.session_id THEN "Pass" ELSE "Warning",
             IF info.session_id THEN "Session ID properly managed"
             ELSE "No session ID found")>>
    \o <<Result("resumability_support", "Protocol",
                IF info.can_resume THEN "Pass" ELSE "Info",
                IF info.can_resume THEN "Transport supports connection resumability"
                ELSE "Transport does not currently support resumability")>>
    \o (IF info.security_enabled
        THEN <<Result("security_features", "Security", "Pass",
                      "Security validation is enabled")>>
        ELSE <<>>)
    \o <<Result("https_usage", "Security",
                CASE info.base_url = "https" -> "Pass"
                  [] info.base_url = "localhost" -> "Info"
                  [] OTHER -> "Warning",
                CASE info.base_url = "https" -> "Using secure HTTPS connection"
                  [] info.base_url = "localhost" -> "Using HTTP for localhost"
                  [] OTHER -> "Using insecure HTTP for non-localhost connection")>>

\* What get_info() and is_connected() of the validator's transport may say.
TransportInfos ==
    {[transport_type |-> "http-stream", session_id |-> FALSE, can_resume |-> FALSE,
      security_enabled |-> FALSE, base_url |-> "localhost"],
     [transport_type |-> "streamable-http", session_id |-> FALSE,
      can_resume |-> FALSE, security_enabled |-> TRUE, base_url |-> "localhost"],
     [transport_type |-> "streamable-http", session_id |-> TRUE,
      can_resume |-> TRUE, security_enabled |-> TRUE, base_url |-> "https"]}

\* test_transport_features.
TestTransportFeatures(info, is_connected) ==
    /\ val_pc = "transport_features"
    /\ AddResults(<<Result("transport_info", "Protocol", "Pass", "Using transport")>>
                  \o (IF info.transport_type = "streamable-http"
                      THEN StreamableHttpResults(info) ELSE <<>>)
                  \o <<Result("connection_stability", "Protocol",
                              IF is_connected THEN "Pass" ELSE "Error",
                              IF is_connected THEN "Transport connection is stable"
                              ELSE "Transport connection is not stable")>>,
                  "tools")
    /\ UNCHANGED <<reply, sent, server_info>>

\* JSONSchema::compile(schema): a schema is a boolean or an object, and the
\* `type` of an object schema is a type name or a list of them.
Compiles(schema) ==
    \/ schema.kind = "bool"
    \/ /\ schema.kind = "object"
       /\ StructField(schema, "type", 1).kind \in {"absent", "string", "array"}

\* format!("tool_schema_{}", tool_name) and format!("tool_{}", tool.name)
\* for the tool names drawn.
ToolTestId(prefix, name) ==
    CASE prefix = "tool_schema_" /\ name = "add" -> "tool_schema_add"
      [] prefix = "tool_schema_" /\ name = "echo" -> "tool_schema_echo"
      [] prefix = "tool_" /\ name = "add" -> "tool_add"
      [] OTHER -> "tool_echo"

\* validate_tool_schema
ValidateToolSchema(tool_name, schema) ==
    Result(ToolTestId("tool_schema_", tool_name), "Schema",
           IF Compiles(schema) THEN "Pass" ELSE "Error",
           IF Compiles(schema) THEN "has valid JSON Schema"
           ELSE "has invalid JSON Schema")

\* The loop of test_tools over the tools it is given: the schema result of a
\* tool that has an input_schema, then the tool's own result.
RECURSIVE ToolsResults(_)
ToolsResults(list) ==
    IF list = <<>> THEN <<>>
    ELSE (IF Head(list).input_schema # Absent
          THEN <<ValidateToolSchema(Head(list).name, Head(list).input_schema)>>
          ELSE <<>>)
         \o <<Result(ToolTestId("tool_", Head(list).name), "Tools", "Pass",
                     "is properly defined")>>
         \o ToolsResults(Tail(list))

\* Steps 4 to 6 of run_validation_suite: test_tools over
\* tools_cap.available_tools when the server announced the tools capability
\* (test_resources and test_prompts run over available_resources and
\* available_prompts, which are empty as well and so record nothing), then
\* `if self.config.test_error_conditions`.
TestTools ==
    /\ val_pc = "tools"
    /\ AddResults(IF server_info.some /\ server_info.tools
                  THEN ToolsResults(SubSeq(server_info.available_tools, 1,
                          IF Len(server_info.available_tools) < max_tools_to_test
                          THEN Len(server_info.available_tools)
                          ELSE max_tools_to_test))
                  ELSE <<>>,
                  IF test_error_conditions THEN "invalid_method"
                  ELSE IF strict_schema_validation THEN "schema_validation"
                  ELSE "Ok(report)")
    /\ UNCHANGED <<reply, sent, server_info>>

\* The result test_invalid_method and test_invalid_parameters record for
\* the outcome of the request, `code` being the error code they expect.
ErrorHandlingResult(test_id, code, r) ==
    CASE r.kind = "error" /\ r.code = code ->
            Result(test_id, "ErrorHandling", "Pass", "Server correctly rejects")
      [] r.kind = "error" ->
            Result(test_id, "ErrorHandling", "Warning",
                   "Server returned unexpected error code")
      [] r.kind = "result" ->
            Result(test_id, "ErrorHandling", "Error", "Server should return error")
      [] r.kind = "failure" ->
            Result(test_id, "ErrorHandling", "Warning", "Transport error")
      [] OTHER ->
            Result(test_id, "ErrorHandling", "Error", "timed out")

\* test_error_handling: test_invalid_method ..
TestInvalidMethod(r) ==
    /\ val_pc = "invalid_method"
    /\ TransportSendRequest("invalid/nonexistent/method", r)
    /\ AddResult(ErrorHandlingResult("invalid_method_handling", METHOD_NOT_FOUND, r),
                 "invalid_parameters")
    /\ UNCHANGED server_info

\* .. and test_invalid_parameters, then `if
\* self.config.strict_schema_validation`.
TestInvalidParameters(r) ==
    /\ val_pc = "invalid_parameters"
    /\ TransportSendRequest("initialize", r)
    /\ AddResult(ErrorHandlingResult("invalid_params_handling", INVALID_PARAMS, r),
                 IF strict_schema_validation THEN "schema_validation"
                 ELSE "Ok(report)")
    /\ UNCHANGED server_info

\* test_schema_validation, then generate_report: validate() returns
\* Ok(report) with report.results = self.results.
TestSchemaValidation ==
    /\ val_pc = "schema_validation"
    /\ AddResult(Result("schema_validation", "Schema", "Pass",
                        "All messages conform to expected schemas"),
                 "Ok(report)")
    /\ UNCHANGED <<reply, sent, server_info>>

\* What the server may make of a request of the validator.
ValidatorReplies ==
    {Reply("result", Json("object", [server_info |-> Json("object", <<>>)]), 0),
     Reply("result", Json("number", 70), 0), Reply("error", Absent, METHOD_NOT_FOUND),
     Reply("error", Absent, -32603), Reply("failure", Absent, 0), Reply("timeout", Absent, 0)}

\* An InitializeResponse announcing the tools capability.
InitializeWithTools ==
    Reply("result",
          Json("object",
               [server_info |-> Json("object", <<>>),
                capabilities |-> Json("object", [tools |-> Json("object", <<>>)])]),
          0)

\* What the server answers to a listing and to the requests of
\* test_error_handling.
ListReplies ==
    {Reply("result", Json("object", <<>>), 0),
     Reply("error", Absent, METHOD_NOT_FOUND), Reply("failure", Absent, 0),
     Reply("timeout", Absent, 0)}
ErrorReplies == ListReplies \cup {Reply("error", Absent, INVALID_PARAMS)}

\* The tools a server may expose: name and input_schema.
ToolLists ==
    {<<>>,
     <<[name |-> "echo", input_schema |-> Absent]>>,
     <<[name |-> "add",
        input_schema |-> Json("object", [type |-> Json("string", "object")])],
       [name |-> "echo",
        input_schema |-> Json("object", [type |-> Json("number", 5)])]>>}

\* validate(): run_validation_suite.  total_timeout (300 s) is not reached
\* by the six requests of at most test_timeout (30 s) each.
ValidatorNext ==
    \/ \E ok \in BOOLEAN : CreateTransport(ok)
    \/ \E r \in ValidatorReplies \cup {InitializeWithTools} : TestInitialization(r)
    \/ TestProtocolCompliance
    \/ \E r \in ListReplies : TestToolsListing(r)
    \/ \E r \in ListReplies : TestResourcesListing(r)
    \/ \E r \in ListReplies : TestPromptsListing(r)
    \/ \E info \in TransportInfos, is_connected \in BOOLEAN :
          TestTransportFeatures(info, is_connected)
    \/ TestTools
    \/ \E r \in ErrorReplies : TestInvalidMethod(r)
    \/ \E r \in ErrorReplies : TestInvalidParameters(r)
    \/ TestSchemaValidation

\* ValidationEngine::new, about to validate a server exposing `exposed`.
ValidatorIdle(r, exposed) ==
    /\ reply = r
    /\ request = "none"
    /\ wrapper_ret = WrapperErr("none")
    /\ results = <<>>
    /\ val_pc = "new"
    /\ sent = <<>>
    /\ server_info = NoServerInfo
    /\ tools = exposed

\* No wrapper called yet, ValidationEngine::new.
ClientIdle(r) == ValidatorIdle(r, <<>>)

\* ======================================================================
\* NegotiationFlow (crates/mcp-cli/src/flows/mod.rs)
\* ======================================================================

\* Durations are in milliseconds, RetryPolicy.initial_delay in microseconds
\* (a Duration need not be a whole number of milliseconds).

\* FlowBuilder::add_step, which `then` forwards to: steps.push(step).
Then(chain, step) == Append(chain, step)

\* FlowStep::chain: a builder holding the one step.
Chain(step) == Then(<<>>, step)

\* The flow of test_flow_builder, the standard initialization flow.
StandardFlow ==
    Then(Then(Then(Then(Then(Chain("Connect"), "Initialize"),
        "WaitForResponse"), "ProcessCapabilities"), "SendNotification"),
        "TransitionTo")

\* FlowHandler::is_retryable: the default, which no step overrides.
IsRetryable(step) == TRUE

\* RetryPolicy of FlowConfig::default().
DefaultRetryPolicy ==
    [max_attempts |-> 3, initial_delay |-> 1000 * 1000, max_delay |-> 30000,
     num |-> 2, den |-> 1]

\* backoff_multiplier is num / den.  Policies a caller may pass to
\* FlowBuilder::with_retry_policy.
RetryPolicies ==
    { DefaultRetryPolicy,
      [DefaultRetryPolicy EXCEPT !.initial_delay = 20000 * 1000],
      [DefaultRetryPolicy EXCEPT !.initial_delay = 1000, !.num = 3, !.den = 2],
      [DefaultRetryPolicy EXCEPT !.max_attempts = 0] }

\* TimeoutConfig.total of FlowConfig::default().
TimeoutsTotal == 300000

\* The timeout of Connect::with_default_timeout, of the initialize request
\* and of WaitForResponse::with_validation.
StepTimeout == 30000

RECURSIVE Pow(_, _)
Pow(b, e) == IF e = 0 THEN 1 ELSE b * Pow(b, e - 1)

MinOf(a, b) == IF a <= b THEN a ELSE b

\* The delay of execute after the attempts-th failed attempt:
\* (initial_delay.as_millis() as f64 * backoff_multiplier.powi(attempts - 1))
\* as u64 milliseconds, then .min(max_delay).  as_millis() is in whole
\* milliseconds and the cast truncates.
BackoffDelay(policy, n) ==
    MinOf(((policy.initial_delay \div 1000) * Pow(policy.num, n - 1))
              \div Pow(policy.den, n - 1),
          policy.max_delay)

\* `attempts >= max_attempts || !step.is_retryable()`
GivesUpLate(step, n, policy) == n > policy.max_attempts \/ ~IsRetryable(step)
GivesUp(step, n, policy) == n >= policy.max_attempts \/ ~IsRetryable(step)

\* FlowBuilder::build with the given retry policy.
FlowBuilt(policy) ==
    /\ steps = StandardFlow
    /\ retry_policy = policy
    /\ context_state = "Idle"
    /\ init_response = FALSE
    /\ flow_pc = "built"
    /\ index = 0
    /\ attempts = 0
    /\ delay = 0
    /\ flow_result = "none"
    /\ clock = 0
    /\ completed = <<>>
    /\ initialized_received = 0

\* execute(): TransportFactory::create, whose failure is returned with `?`
\* before any step runs, then the loop over the steps.
Execute(created) ==
    /\ flow_pc = "built"
    /\ IF created
       THEN /\ flow_pc' = IF steps = <<>> THEN "returned" ELSE "loop"
            /\ flow_result' = IF steps = <<>> THEN "Ok" ELSE "none"
            /\ index' = 1
       ELSE /\ flow_pc' = "returned"
            /\ flow_result' = "Err"
            /\ UNCHANGED index
    /\ UNCHANGED <<steps, retry_policy, context_state, init_response, attempts,
                   delay, clock, completed, initialized_received>>
    /\ UNCHANGED notFlowVars

\* The state a step's execute assigns before it does anything else.
EntryState(step, state) ==
    CASE step = "Connect" -> "Connecting"
      [] step = "Initialize" -> "Initializing"
      [] step = "WaitForResponse" -> "Awaiting"
      [] step = "SendNotification" -> "Finalizing"
      [] OTHER -> state

\* The steps whose execute calls the transport.
CallsTransport(step) ==
    step \in {"Connect", "Initialize", "WaitForResponse", "SendNotification"}

\* `attempts += 1` and the start of step.execute.
BeginAttempt ==
    /\ flow_pc = "loop"
    /\ attempts' = attempts + 1
    /\ context_state' = EntryState(steps[index], context_state)
    /\ flow_pc' = "step"
    /\ sse_ret' = NoSseRet
    /\ UNCHANGED <<steps, retry_policy, init_response, index, delay,
                   flow_result, clock, completed, initialized_received>>
    /\ UNCHANGED <<sse_connected, session_id, sse_receiver, sse_task, detached, sse_call,
                   first_post, last_event_id, task_last_event_id, resume_get,
                   surfaced>>
    /\ UNCHANGED <<streamVars, configVars, cliVars>>

\* The step in progress has yet to call the transport.
Calls(step) ==
    /\ flow_pc = "step"
    /\ steps[index] = step
    /\ sse_ret = NoSseRet
    /\ sse_call = SseIdle

\* ConnectStep: transport.connect() under the step's timeout.
FlowConnect == Calls("Connect") /\ \E ok \in BOOLEAN : SseConnect(ok)

\* InitializeStep: transport.send_request of the request with id "init_1",
\* which id 1 stands for.
FlowInitialize == Calls("Initialize") /\ SseSendRequest(1)

\* WaitForResponseStep: transport.receive_message under the step's timeout.
FlowWaitForResponse == Calls("WaitForResponse") /\ SseReceiveMessage

\* SendNotificationStep: transport.send_notification of `initialized`.
FlowSendNotification == Calls("SendNotification") /\ SseSendNotification

\* Whether step.execute returns Ok(()), given what the transport call
\* returned and, for WaitForResponseStep, what the result of the response
\* holds: an InitializeResponse, something else ("other"), or there is no
\* result ("none").
StepSucceeds(step, r, content, has_init) ==
    CASE step = "Connect" -> r.kind = "Ok"
      [] step = "Initialize" -> r.kind = "Response"
      [] step = "WaitForResponse" ->
            r.kind = "Response" /\ content = "InitializeResponse"
      [] step = "ProcessCapabilities" -> has_init
      [] step = "SendNotification" -> r.kind = "Ok"
      [] OTHER -> TRUE

\* The state a step's execute assigns on its way to Ok(()).
ExitState(step, state) ==
    CASE step = "ProcessCapabilities" -> "Processing"
      [] step = "TransitionTo" -> "Ready"
      [] OTHER -> state

\* `for (index, step) in self.steps.iter().enumerate()`: the step after
\* the one that succeeded.
SkipIndex(i) == i + 2
NextIndex(i) == i + 1

\* The `initialized` POST of an attempt reached the server: always when the
\* server replied, possibly when the POST failed (the connection may break
\* after the request was delivered).
Delivered(step, r, lost) ==
    /\ step = "SendNotification"
    /\ r.kind = "Ok" \/ (r.kind = "NetworkError" /\ ~lost)

\* step.execute returns and the `match` of the executor's loop acts on it.
StepReturn(took, content, lost) ==
    /\ flow_pc = "step"
    /\ sse_call = SseIdle
    /\ CallsTransport(steps[index]) => sse_ret # NoSseRet
    \* an attempt takes no time, or as long as the timeout on its
    \* transport call allows
    /\ took # 0 => CallsTransport(steps[index])
    /\ LET step == steps[index]
           ok == StepSucceeds(step, sse_ret, content, init_response)
       IN /\ clock' = clock + took
          /\ initialized_received' =
                IF Delivered(step, sse_ret, lost)
                THEN initialized_received + 1 ELSE initialized_received
          /\ IF ok
             THEN /\ context_state' = ExitState(step, context_state)
                  /\ init_response' = (init_response \/ step = "WaitForResponse")
                  /\ completed' = Append(completed, [step |-> step,
                                                     attempts |-> attempts])
                  /\ index' = NextIndex(index)
                  /\ attempts' = 0
                  /\ flow_pc' = IF index = Len(steps) THEN "returned" ELSE "loop"
                  /\ flow_result' = IF index = Len(steps) THEN "Ok" ELSE "none"
                  /\ UNCHANGED delay
             ELSE IF GivesUp(step, attempts, retry_policy)
             THEN /\ context_state' = "Failed"
                  /\ flow_pc' = "returned"
                  /\ flow_result' = "Err"
                  /\ UNCHANGED <<init_response, completed, index, attempts, delay>>
             ELSE /\ delay' = BackoffDelay(retry_policy, attempts)
                  /\ flow_pc' = "sleep"
                  /\ UNCHANGED <<context_state, init_response, completed, index,
                                 attempts, flow_result>>
    /\ UNCHANGED <<steps, retry_policy>>
    /\ UNCHANGED notFlowVars

\* tokio::time::sleep(delay), then the next turn of the loop.
Sleep ==
    /\ flow_pc = "sleep"
    /\ clock' = clock + delay
    /\ flow_pc' = "loop"
    /\ UNCHANGED <<steps, retry_policy, context_state, init_response, index,
                   attempts, delay, flow_result, completed, initialized_received>>
    /\ UNCHANGED notFlowVars

\* FlowSpec: execute() of the standard flow over an HttpSseTransport and the
\* server it talks to.
FlowNext ==
    \/ \E created \in BOOLEAN : Execute(created)
    \/ BeginAttempt
    \/ FlowConnect
    \/ FlowInitialize
    \/ FlowWaitForResponse
    \/ FlowSendNotification
    \/ \E took \in {0, StepTimeout},
          content \in {"InitializeResponse", "other", "none"},
          lost \in BOOLEAN : StepReturn(took, content, lost)
    \/ Sleep
    \/ SsePostFail
    \/ SseRequestTimeout
    \/ \E ct \in ContentTypes : SseReply(NoneStr, ct, 200)
    \/ \E body \in {Response(1), NoMsg} : SseJsonBody(body)
    \/ SseNotificationReply(200)
    \/ \E m \in {Response(1), Notification} : SseEvent(m, <<>>)
    \/ SseStreamEnd

\* ======================================================================
\* HttpSseTransport::new and the Mcp-Session-Id check, as functions of
\* their inputs
\* ======================================================================

\* url::Host: a domain name, an IPv4 address or an IPv6 address.
Host(kind, text) == [kind |-> kind, text |-> text]

\* Url::host_str: the host as it is serialized in the URL, an IPv6 address
\* between square brackets.
HostStr(h) == IF h.kind = "Ipv6" THEN "[" \o h.text \o "]" ELSE h.text

Hosts == {Host("Domain", "localhost"), Host("Ipv4", "127.0.0.1"),
          Host("Ipv6", "::1"), Host("Domain", "example.com"),
          Host("Ipv4", "10.0.0.5")}
Urls == [scheme : {"http", "https"}, host : Hosts]
LocalhostUrl == [scheme |-> "http", host |-> Host("Domain", "localhost")]

\* TransportConfig: the variant, and the base_url of an HttpSse config.
Configs == {[kind |-> "HttpSse", base_url |-> u] : u \in Urls}
               \cup {[kind |-> "Stdio", base_url |-> LocalhostUrl]}

\* build_http_client: InvalidConfig for a config that is not
\* TransportConfig::HttpSse.
BuildHttpClient(cfg) == IF cfg.kind = "HttpSse" THEN "Ok" ELSE "InvalidConfig"

\* SecurityConfig::default(): require_https is false.
require_https == FALSE

\* build_security_config: require_https is turned on for a host that is
\* neither "localhost" nor "127.0.0.1".
RequireHttps(url) ==
    \/ require_https
    \/ HostStr(url.host) # "localhost" /\ HostStr(url.host) # "127.0.0.1"

BuildSecurityConfig(url) ==
    IF RequireHttps(url) /\ url.scheme # "https" THEN "InvalidConfig" ELSE "Ok"

\* HttpSseTransport::new
NewTransport(cfg) ==
    IF BuildHttpClient(cfg) # "Ok" THEN "InvalidConfig"
    ELSE BuildSecurityConfig(cfg.base_url)

\* The Mcp-Session-Id values tried: one character repeated, around the
\* minimum length, and the mixed values above.
CandidateLens == {0, MinSessionIdLen \div 2, MinSessionIdLen - 1,
                  MinSessionIdLen, MinSessionIdLen + 1}
CandidateStrs ==
    {<<Run(c, n)>> : c \in {"a", "Z", "7", "-", "@", "eacute"},
                     n \in CandidateLens \ {0}}
        \cup {<<>>, SidB, SidBadChar}
Candidates == {NoneStr} \cup {Some(v) : v \in CandidateStrs}

ConfigInit ==
    /\ StreamInit
    /\ SseInit
    /\ config \in Configs
    /\ new_result = "none"
    /\ candidate \in Candidates
    /\ verdict = "none"
    /\ FlowBuilt(DefaultRetryPolicy)
    /\ ClientIdle(Reply("failure", Absent, 0))

New ==
    /\ new_result = "none"
    /\ new_result' = NewTransport(config)
    /\ UNCHANGED <<config, candidate, verdict>>
    /\ UNCHANGED notConfigVars

\* The transport receives a reply whose Mcp-Session-Id header is `candidate`.
CheckHeader ==
    /\ new_result = "Ok"
    /\ verdict = "none"
    /\ verdict' = HeaderVerdict(candidate)
    /\ UNCHANGED <<config, new_result, candidate>>
    /\ UNCHANGED notConfigVars

ConfigNext == New \/ CheckHeader

\* ======================================================================
\* Specifications
\* ======================================================================

\* The transports after a construction that succeeded.
Init ==
    /\ StreamInit
    /\ SseInit
    /\ config = [kind |-> "HttpSse", base_url |-> LocalhostUrl]
    /\ new_result = "Ok"
    /\ candidate = NoneStr
    /\ verdict = "none"
    /\ FlowBuilt(DefaultRetryPolicy)
    /\ ClientIdle(Reply("failure", Absent, 0))

\* A flow built over such a transport, with a retry policy of the caller.
FlowInit ==
    /\ StreamInit
    /\ SseInit
    /\ config = [kind |-> "HttpSse", base_url |-> LocalhostUrl]
    /\ new_result = "Ok"
    /\ candidate = NoneStr
    /\ verdict = "none"
    /\ \E policy \in RetryPolicies : FlowBuilt(policy)
    /\ ClientIdle(Reply("failure", Absent, 0))

\* A client whose server is about to make something of a request.
ClientInit ==
    /\ StreamInit
    /\ SseInit
    /\ config = [kind |-> "HttpSse", base_url |-> LocalhostUrl]
    /\ new_result = "Ok"
    /\ candidate = NoneStr
    /\ verdict = "none"
    /\ FlowBuilt(DefaultRetryPolicy)
    /\ \E r \in Replies : ClientIdle(r)

\* A validation engine about to validate a server.
ValidatorInit ==
    /\ StreamInit
    /\ SseInit
    /\ config = [kind |-> "HttpSse", base_url |-> LocalhostUrl]
    /\ new_result = "Ok"
    /\ candidate = NoneStr
    /\ verdict = "none"
    /\ FlowBuilt(DefaultRetryPolicy)
    /\ \E exposed \in ToolLists : ValidatorIdle(Reply("failure", Absent, 0), exposed)

Next == StreamNext

Spec == Init /\ [][Next]_vars

SseSpec == Init /\ [][SseNext]_vars

EventSpec == Init /\ [][EventNext]_vars

StatusSpec == Init /\ [][StatusNext]_vars

ConfigSpec == ConfigInit /\ [][ConfigNext]_vars

FlowSpec == FlowInit /\ [][FlowNext]_vars

ReaderSpec == Init /\ [][ReaderNext]_vars

ClientSpec == ClientInit /\ [][ClientNext]_vars

ValidatorSpec == ValidatorInit /\ [][ValidatorNext]_vars

\* ======================================================================
\* Claims
\* ======================================================================

\* C1: each send_request returns the response whose id equals its own
\* request id: a call whose request reached the server and whose response
\* (same id) came off the stream while it was waiting returns exactly that
\* response.
C1_WaiterGetsOwnResponse ==
    (ret.op = "send_request" /\ ret.answered)
        => /\ ret.kind = "Response"
           /\ ret.msg = Response(oneshot[ret.chan].id)

\* C2: a send_request whose id is still registered for an outstanding request
\* fails at registration: it never becomes a registered, waiting call.
C2_ReuseFailsAtRegistration ==
    ~(call.op = "send_request" /\ call.reused)

\* C3: after a send_request has timed out, the correlation table no longer
\* holds its entry.
C3_TimedOutEntryRemoved ==
    \A c \in Chans :
        oneshot[c].result = "TimeoutError" => pending_requests[oneshot[c].id] # c

C5_StreamedResponseReturned ==
    (/\ sse_receiver.some
     /\ \E i \in 1..Len(sse_receiver.queue) :
            sse_receiver.queue[i] = Response(sse_receiver.opener))
        => sse_receiver.returned = "Response"

\* C6: receive_message never returns the response to a client request: not
\* the response to the request whose POST opened the stream it reads.
C6_ReceiveNeverReturnsResponse ==
    ~(/\ sse_ret.op = "receive_message"
      /\ sse_ret.kind = "Response"
      /\ sse_ret.msg.id = sse_receiver.opener)

\* C7: a response whose id matches no outstanding waiter is discarded: it is
\* not returned to the caller of receive_message (a response with a waiter
\* is handed to the waiter, so no response is ever returned).
C7_UnmatchedResponseDiscarded ==
    ~(ret.op = "receive_message" /\ ret.kind = "Response")

\* C8: once a session id is stored it never changes: no step replaces a
\* stored session id by a different one.
C8_SessionIdImmutable ==
    [][(session_id.some /\ session_id'.some) => session_id' = session_id]_vars

\* C9: the first POST carries no Mcp-Session-Id header, and every POST on the
\* wire, request or notification, carries Mcp-Session-Id equal to the stored
\* session id (none while none is stored).
C9_PostsCarryStoredSessionId ==
    /\ first_post.sent => ~first_post.header.some
    /\ (sse_call.op # "idle" /\ sse_call.phase = "sent")
           => sse_call.header = session_id

\* C9 witness: a notification POST on the wire carrying a stored session id.
C9_Witness ==
    /\ sse_call.op = "send_notification"
    /\ sse_call.header = Some(SidB)
    /\ first_post.sent

\* C10: after a reply whose Mcp-Session-Id fails validation has been rejected,
\* the transport is disconnected: is_connected() is false.
C10_InvalidSessionIdDisconnects ==
    (sse_ret.op = "send_request" /\ sse_ret.kind = "InvalidConfig")
        => ~sse_connected

\* C11: when the reader task dispatches the payload of an event that carries
\* a new non-empty id, the transport's last_event_id is that id.
C11_LastEventIdSetBeforeDispatch ==
    [][(/\ Len(sse_receiver'.queue) > Len(sse_receiver.queue)
        /\ task_last_event_id' # task_last_event_id)
           => last_event_id' = task_last_event_id']_vars

\* C12: a resume_sse_connection called after the stream was lost, the reader
\* task having ingested events with ids, issues a GET whose Last-Event-ID is
\* the id of the most recently ingested event with a non-empty id.
C12_ResumeSendsLastEventId ==
    [][(/\ sse_task = "ended"
        /\ task_last_event_id.some
        /\ sse_ret.op # "resume_sse_connection"
        /\ sse_ret'.op = "resume_sse_connection")
           => /\ resume_get'.sent
              /\ resume_get'.header = task_last_event_id]_vars

\* C13: Disconnected is terminal: a transport that disconnect() has just
\* left disconnected is not made connected again by any later step.
C13_DisconnectedIsTerminal ==
    [][(sse_ret.op = "disconnect" /\ ~sse_connected) => ~sse_connected']_vars

\* C14: connect() on a transport on which connect() has already succeeded
\* (it holds a connection) returns an error, not Ok.
C14_SecondConnectFails ==
    [][(/\ connection = "Some"
        /\ ret.op # "connect"
        /\ ret'.op = "connect")
           => ret'.kind # "Ok"]_vars

\* C15: once disconnect() has returned (here: it has dropped the sender of a
\* pending entry), every send_request, send_notification and receive_message
\* that returns afterwards fails with NotConnected.
C15_AfterDisconnectNotConnected ==
    (/\ \E c \in Chans : oneshot[c].tx = "cleared"
     /\ ret.op \in {"send_request", "send_notification", "receive_message"})
        => ret.kind = "NotConnected"

\* C16: receive_message returns notifications in the order in which the
\* transport surfaced them: a notification it returns is the earliest
\* surfaced one among those not returned yet.
C16_NotificationsInSurfacedOrder ==
    [][(/\ sse_ret'.op = "receive_message"
        /\ sse_ret'.kind = "Notification"
        /\ sse_receiver.queue # <<>>
        /\ sse_receiver'.queue = Tail(sse_receiver.queue))
           => /\ surfaced # <<>>
              /\ sse_ret'.msg = Head(surfaced)]_vars

\* C16 witness: receive_message has returned one notification while a
\* different one, surfaced after it, is still queued.
C16_Witness ==
    /\ sse_ret.op = "receive_message"
    /\ sse_ret.msg = NotificationOf(1)
    /\ sse_receiver.queue # <<>>
    /\ Head(sse_receiver.queue) = NotificationOf(2)
    /\ surfaced = <<NotificationOf(2)>>

\* C17: the transport never retries on its own: after a failed attempt to
\* establish the stream the connection task makes no further attempt.
C17_NoRetryInTransport ==
    [][task'.retry_count > task.retry_count => task'.pc = "ended"]_vars

\* C18: a send_request or send_notification whose POST was answered with a
\* non-2xx status fails: it returns neither Ok nor a parsed response.
C18_Non2xxIsAnError ==
    (/\ sse_ret.op \in {"send_request", "send_notification"}
     /\ sse_ret.status # 0
     /\ ~IsSuccess(sse_ret.status))
        => sse_ret.kind \notin {"Ok", "Response"}

\* C19: constructing the Streamable HTTP transport fails for a URL whose
\* host is none of localhost, 127.0.0.1, ::1 and whose scheme is not https,
\* and succeeds for a plain-http URL whose host is one of the three.
C19_HttpsUnlessLocalhost ==
    (new_result # "none" /\ config.kind = "HttpSse")
        => LET url == config.base_url
               local == url.host.text \in {"localhost", "127.0.0.1", "::1"}
           IN /\ (~local /\ url.scheme # "https") => new_result # "Ok"
              /\ (local /\ url.scheme = "http") => new_result = "Ok"

\* C20: an Mcp-Session-Id value is accepted if and only if it has at least
\* 16 characters, each of them in [A-Za-z0-9-], and every other value is
\* rejected with an error.
C20_SessionIdAcceptedIffWellFormed ==
    (verdict # "none" /\ candidate.some)
        => LET RECURSIVE CharLen(_)
               CharLen(str) == IF str = <<>> THEN 0
                               ELSE Head(str).n + CharLen(Tail(str))
               str == candidate.val
               wellFormed ==
                   /\ CharLen(str) >= 16
                   /\ \A i \in 1..Len(str) : str[i].ch \in {"a", "b", "Z", "7", "-"}
           IN /\ wellFormed => verdict = "Ok"
              /\ ~wellFormed => verdict \in {"TooShort", "InvalidChars"}


\* C21: when an attempt of a step fails and the step is non-retryable or
\* has used up max_attempts, the flow state becomes Failed, execute returns
\* the error, and from then on no step runs and the transport is not called.
C21_FailureStopsFlow ==
    [][ /\ ( /\ flow_pc = "step" /\ flow_pc' # "step"
             /\ completed' = completed
             /\ (attempts >= retry_policy.max_attempts
                    \/ ~IsRetryable(steps[index])) )
           => ( /\ context_state' = "Failed"
                /\ flow_result' = "Err"
                /\ flow_pc' = "returned" )
        /\ context_state = "Failed"
           => UNCHANGED <<flowVars, sse_call, sse_ret>> ]_vars

C21_Witness ==
    /\ context_state = "Failed"
    /\ flow_result = "Err"
    /\ steps[index] = "WaitForResponse"
    /\ attempts = retry_policy.max_attempts

\* C22: the wait after the k-th failed attempt of a retryable step is
\* exactly min(initial_delay * backoff_multiplier^(k-1), max_delay); in
\* microseconds, with both sides multiplied by den^(k-1).
C22_DelayIsExactBackoff ==
    flow_pc = "sleep" =>
        LET scale == Pow(retry_policy.den, attempts - 1)
        IN delay * 1000 * scale =
              MinOf(retry_policy.initial_delay * Pow(retry_policy.num, attempts - 1),
                    retry_policy.max_delay * 1000 * scale)

\* C23: the flow never runs longer than the configured overall flow timeout.
C23_WithinTotalTimeout == clock <= TimeoutsTotal

\* C24: the initialized notification is sent exactly once before Ready is
\* entered, and not before Finalizing was entered.
C24_InitializedSentOnce ==
    /\ context_state = "Ready" => initialized_received = 1
    /\ initialized_received > 0 =>
          context_state \in {"Finalizing", "Ready", "Failed"}

\* The successor of a state on the path from Idle to Ready.
C25_Successor(state) ==
    CASE state = "Idle" -> "Connecting"
      [] state = "Connecting" -> "Initializing"
      [] state = "Initializing" -> "Awaiting"
      [] state = "Awaiting" -> "Processing"
      [] state = "Processing" -> "Finalizing"
      [] state = "Finalizing" -> "Ready"
      [] OTHER -> "none"

\* C25: the state changes only to its successor on the path Idle,
\* Connecting, Initializing, Awaiting, Processing, Finalizing, Ready, or to
\* Failed or Retrying; Failed is never left; and while the executor waits
\* to retry a step the state is Retrying.
C25_StateMachine ==
    [][ /\ context_state' # context_state =>
              \/ context_state' \in {"Failed", "Retrying"}
              \/ context_state' = C25_Successor(context_state)
              \/ context_state = "Retrying"
        /\ context_state = "Failed" => context_state' = "Failed"
        /\ flow_pc' = "sleep" => context_state' = "Retrying" ]_vars

\* C26: when the server has answered the one initialize request with its
\* result (the Initialize step succeeded at its first attempt, and the
\* server opened no event stream on which it could send anything else), the
\* flow ends in Ready.
C26_HandshakeCompletes ==
    ( /\ flow_pc = "returned"
      /\ Len(completed) >= 2
      /\ completed[2] = [step |-> "Initialize", attempts |-> 1]
      /\ ~sse_receiver.some )
       => context_state = "Ready"

\* C27: the chained flow holds exactly the six steps in the order they were
\* chained; before execute it is Idle; the steps that have succeeded are a
\* prefix of the chain, and the step being run is the one after them.
C27_StepsRunInChainedOrder ==
    /\ steps = <<"Connect", "Initialize", "WaitForResponse",
                 "ProcessCapabilities", "SendNotification", "TransitionTo">>
    /\ Len(steps) = 6
    /\ flow_pc = "built" => context_state = "Idle"
    /\ Len(completed) <= Len(steps)
    /\ \A i \in 1..Len(completed) : completed[i].step = steps[i]
    /\ flow_pc \in {"loop", "step", "sleep"} => index = Len(completed) + 1

C27_Witness ==
    /\ flow_result = "Ok"
    /\ Len(completed) = 6
    /\ context_state = "Ready"

\* A value that is a CallToolResponse: an object whose content is a list of
\* tool results and whose is_error, when there, is a boolean.
C28_Conforms(v) ==
    /\ v.kind = "object"
    /\ StructField(v, "content", 1).kind = "array"
    /\ \A i \in 1..Len(StructField(v, "content", 1).val) :
          IsToolResult(StructField(v, "content", 1).val[i])
    /\ StructField(v, "is_error", 2).kind \in {"absent", "bool"}

\* C28: for a tools/call result that does not conform to CallToolResponse,
\* call_tool returns a response with exactly one Text item holding the
\* pretty-printed JSON of the result, and is_error = false.
C28_NonConformingBecomesText ==
    ( /\ request = "tools/call"
      /\ reply.kind = "result"
      /\ ~C28_Conforms(reply.value) )
       => wrapper_ret = TextResponse(Written(reply.value, "pretty"))

C30_MethodNotFoundIsSkipped ==
    ( /\ results # <<>>
      /\ results[Len(results)].test_id \in
            {"tools_listing", "resources_listing", "prompts_listing"}
      /\ reply = Reply("error", Absent, METHOD_NOT_FOUND) )
       => results[Len(results)].status = "Skipped"

\* C31: every validator test whose request exceeds test_timeout is recorded
\* with status Critical and a message saying that it timed out.
C31_TimeoutIsCritical ==
    [][ (sent' # sent /\ reply'.kind = "timeout")
           => /\ results'[Len(results')].status = "Critical"
              /\ results'[Len(results')].message \in
                    {"timed out", "Initialization timed out"} ]_vars

\* C32: no failure of a single test aborts the run: validate() never
\* returns an error, and when it has returned, the last test of the suite
\* has been run and recorded.
C32_NoTestAbortsTheRun ==
    val_pc \in {"Err", "Ok(report)"}
       => /\ val_pc = "Ok(report)"
          /\ results[Len(results)].test_id = "schema_validation"

\* C33: when the run is over, every tool the server exposed in its tools
\* list that has an input_schema has a schema result, with status Error
\* when the schema does not compile.
C33_EveryToolSchemaIsCompiled ==
    ( /\ val_pc = "Ok(report)"
      /\ \E i \in 1..Len(results) :
            results[i].test_id = "tools_listing" /\ results[i].status = "Pass" )
       => \A t \in 1..Len(tools) :
             tools[t].input_schema # Absent
                => \E i \in 1..Len(results) :
                      /\ results[i].test_id = ToolTestId("tool_schema_", tools[t].name)
                      /\ results[i].status = "Error"
                            <=> ~Compiles(tools[t].input_schema)

\* The stage of the suite, in the order listed, that a result belongs to.
C34_Stage(test_id) ==
    CASE test_id = "transport_connection" -> 1
      [] test_id = "initialization" -> 2
      [] test_id = "json_rpc_compliance" -> 3
      [] test_id \in {"transport_info", "session_management", "resumability_support",
                      "security_features", "https_usage", "connection_stability"} -> 4
      [] test_id \in {"tools_listing", "resources_listing", "prompts_listing"} -> 5
      [] test_id \in {"tool_schema_add", "tool_schema_echo", "tool_add", "tool_echo"} -> 6
      [] test_id \in {"invalid_method_handling", "invalid_params_handling"} -> 7
      [] OTHER -> 8

\* C34: the results are recorded stage by stage in the listed order:
\* connection, initialize, protocol compliance, transport features,
\* capability listings, per-tool schemas, error handling, summary.
C34_StagesInListedOrder ==
    \A i, j \in 1..Len(results) :
       i < j => C34_Stage(results[i].test_id) <= C34_Stage(results[j].test_id)

\* C35: under every retry policy, max_attempts = 0 included, no step is
\* attempted more than max_attempts times in one execution.
C35_AtMostMaxAttempts ==
    /\ attempts <= retry_policy.max_attempts
    /\ \A i \in 1..Len(completed) :
          completed[i].attempts <= retry_policy.max_attempts

\* C36: while the transport stays connected, a message that the reader
\* task has received and receive_message has not yet returned leaves the
\* channel only by being returned by receive_message: opening a further
\* event stream discards none.
C36_NoReceivedMessageIsDiscarded ==
    [][ (sse_connected /\ sse_connected' /\ sse_receiver.some)
           => \/ /\ Len(sse_receiver'.queue) >= Len(sse_receiver.queue)
                 /\ SubSeq(sse_receiver'.queue, 1, Len(sse_receiver.queue))
                       = sse_receiver.queue
              \/ /\ sse_receiver.queue # <<>>
                 /\ sse_receiver'.queue = Tail(sse_receiver.queue)
                 /\ sse_ret'.op = "receive_message"
                 /\ sse_ret'.msg = Head(sse_receiver.queue) ]_vars

\* C37: the step in which connect() makes is_connected() true returns
\* success only with the stream to the server established.
C37_ConnectSucceedsOnlyIfEstablished ==
    [][ (connection = "None" /\ connection' = "Some" /\ ret'.kind = "Ok")
           => task'.pc = "stream" ]_vars

\* C38: for a tools/call result that conforms to CallToolResponse, call_tool
\* returns the parsed response itself: the content list and the is_error
\* flag of the result, and no text made up from it.
C38_ConformingIsReturnedAsParsed ==
    ( /\ request = "tools/call"
      /\ reply.kind = "result"
      /\ C28_Conforms(reply.value) )
       => wrapper_ret = WrapperOk(FromValue(reply.value).content,
                                  FromValue(reply.value).is_error)

\* C39: after a successful initialize response the next message the
\* validator sends is the initialized notification, before any other
\* request.
C39_InitializedBeforeRequests ==
    ( /\ Len(sent) >= 2
      /\ \E i \in 1..Len(results) :
            results[i].test_id = "initialization" /\ results[i].status = "Pass" )
       => sent[2] = "notifications/initialized"

\* C40: once disconnect() has returned, no reader task of the transport is
\* running any more, neither the one feeding the channel of receive_message
\* nor an earlier one.
C40_NoReaderAfterDisconnect ==
    (sse_ret.op = "disconnect" /\ sse_call = SseIdle)
       => (sse_task # "running" /\ ~detached)

=========================================================================
